---- MODULE Spec2Model ----
(***************************************************************************)
(* Model of the numeric core of nexus-ui-ts: the Lowpass moving-average    *)
(* filter (src/util/smooth.ts) and the math helpers clip, scale, ri, rf,   *)
(* cycle and coin (math utility module).                                   *)
(*                                                                         *)
(* JavaScript numbers that can be fractional are exact rationals <<n, d>>  *)
(* in lowest terms with d > 0; <<0,0>> is NaN, <<1,0>> is Infinity and     *)
(* <<-1,0>> is -Infinity.  An optional argument is <<>> when it is omitted *)
(* (undefined) and <<v>> when it is passed.                                *)
(***************************************************************************)
EXTENDS Integers, Sequences, FiniteSets, TLC

VARIABLES
    filters,   \* Lowpass instances, one per constructor argument: [factor, history]
    out,       \* per instance, the sequence of values update has returned
    received,  \* the samples fed so far to every instance
    ctr,       \* the bounded counter driven by cycle
    pc,        \* which helper has been called on `args`
    args,     \* the arguments of the helper call
    ret        \* the value the helper returned

vars == <<filters, out, received, ctr, pc, args, ret>>

\* ---------------------------------------------------------------- bounds
MaxFactor == 3
MaxSample == 4
MaxUpdates == 5
NumBound == 2
DrawDen == 4
MaxRange == 3
MaxSteps == 6

Samples == 0..MaxSample
Nums == (-NumBound)..NumBound
Opt(S) == {<<>>} \cup {<<v>> : v \in S}
FactorArgs == Opt(0..MaxFactor)
Idle == <<>>

\* ------------------------------------------------------ number semantics
NaN == <<0, 0>>
PosInf == <<1, 0>>
NegInf == <<-1, 0>>

Abs(x) == IF x < 0 THEN -x ELSE x

RECURSIVE GCD(_, _)
GCD(a, b) == IF b = 0 THEN a ELSE GCD(b, a % b)

\* the `/` operator on two integer-valued numbers
Quot(a, b) ==
    IF b = 0
    THEN (IF a = 0 THEN NaN ELSE IF a > 0 THEN PosInf ELSE NegInf)
    ELSE LET g == GCD(Abs(a), Abs(b))
             s == IF b < 0 THEN -1 ELSE 1
         IN  <<(s * a) \div g, (s * b) \div g>>

Num(i) == <<i, 1>>

\* the possible outcomes of Math.random(): k / DrawDen in [0, 1)
Draws == {Quot(k, DrawDen) : k \in 0..(DrawDen - 1)}
\* odds passed to coin: omitted, or one of -1/2, 0, 1/2, 1, 3/2
OddsArgs == Opt({Quot(k, 2) : k \in -1..3})

\* the `*` and `+` operators on numbers
Mul(x, y) == Quot(x[1] * y[1], x[2] * y[2])
Add(x, y) == Quot(x[1] * y[2] + y[1] * x[2], x[2] * y[2])

\* the `<` operator on numbers: false as soon as one side is NaN
Less(x, y) ==
    IF x = NaN \/ y = NaN THEN FALSE
    ELSE IF x[2] = 0 \/ y[2] = 0
         THEN (x = NegInf /\ y # NegInf) \/ (y = PosInf /\ x # PosInf)
         ELSE x[1] * y[2] < y[1] * x[2]

\* Math.floor of a finite number
Floor(x) == x[1] \div x[2]

\* Math.min and Math.max on integer-valued numbers
Min(a, b) == IF a < b THEN a ELSE b
Max(a, b) == IF a > b THEN a ELSE b

\* !x for an optional numeric argument: omitted or zero
Falsy(x) == x = <<>> \/ x[1] = 0

\* ----------------------------------------------------------------- Lowpass
\* Array.prototype.reduce((a, b) => a + b, 0)
RECURSIVE SumSeq(_)
SumSeq(s) == IF s = <<>> THEN 0 ELSE Head(s) + SumSeq(Tail(s))

\* Array.prototype.splice(0, deleteCount): drops the first deleteCount items
Splice0(s, deleteCount) ==
    SubSeq(s, Min(Max(deleteCount, 0), Len(s)) + 1, Len(s))

LowpassNew_NoDefault(factor) ==
    [factor |-> IF factor = <<>> THEN 2 ELSE factor[1], history |-> <<>>]

LowpassNew(factor) ==
    [factor |-> IF Falsy(factor) THEN 2 ELSE factor[1], history |-> <<>>]

update_NewestEvicted(self, value) ==
    LET pushed == Append(self.history, value)
        history == IF Len(pushed) > self.factor
                   THEN SubSeq(pushed, 1, self.factor)
                   ELSE pushed
    IN  [self |-> [self EXCEPT !.history = history],
         val |-> Quot(SumSeq(history), Len(history))]

update_NoTrim(self, value) ==
    LET history == Append(self.history, value)
    IN  [self |-> [self EXCEPT !.history = history],
         val |-> Quot(SumSeq(history), Len(history))]

update(self, value) ==
    LET pushed == Append(self.history, value)
        history == IF Len(pushed) > self.factor
                   THEN Splice0(pushed, Len(pushed) - self.factor)
                   ELSE pushed
    IN  [self |-> [self EXCEPT !.history = history],
         val |-> Quot(SumSeq(history), Len(history))]

InitLowpass ==
    /\ filters = [a \in FactorArgs |-> LowpassNew(a)]
    /\ out = [a \in FactorArgs |-> <<>>]
    /\ received = <<>>
    /\ ctr = Idle /\ pc = "lowpass" /\ args = Idle /\ ret = Idle

\* the caller feeds one sample to every filter instance
Update ==
    /\ Len(received) < MaxUpdates
    /\ \E value \in Samples :
         /\ filters' = [a \in FactorArgs |-> update(filters[a], value).self]
         /\ out' = [a \in FactorArgs |-> Append(out[a], update(filters[a], value).val)]
         /\ received' = Append(received, value)
    /\ UNCHANGED <<ctr, pc, args, ret>>

NextLowpass == Update

SpecLowpass == InitLowpass /\ [][NextLowpass]_vars

\* C1: with a positive integer capacity, the n-th update returns the
\* arithmetic mean of exactly the last min(n, factor) samples received
\* (oldest evicted first); capacity 3 fed 1,2,3,4 returns 1, 1.5, 2, 3.
C1_UpdateReturnsWindowMean ==
    /\ \A a \in FactorArgs :
         (a # <<>> /\ a[1] >= 1) =>
            \A n \in 1..Len(received) :
               LET k == IF n < a[1] THEN n ELSE a[1]
                   window == SubSeq(received, n - k + 1, n)
               IN  /\ Len(out[a]) = Len(received)
                   /\ out[a][n][2] > 0
                   /\ out[a][n][1] * k = SumSeq(window) * out[a][n][2]
    /\ (Len(received) >= 4 /\ SubSeq(received, 1, 4) = <<1, 2, 3, 4>>) =>
          SubSeq(out[<<3>>], 1, 4) = << <<1, 1>>, <<3, 2>>, <<2, 1>>, <<3, 1>> >>

C1_Witness ==
    /\ received = <<1, 2, 3, 4>>
    /\ filters[<<3>>].history = <<2, 3, 4>>
    /\ out[<<3>>][4] = <<3, 1>>

\* C2: after every update the history holds min(samples received, factor)
\* items: never more than factor and never none.
C2_HistoryLength ==
    \A a \in FactorArgs :
       Len(received) >= 1 =>
          /\ Len(filters[a].history) =
                (IF Len(received) < filters[a].factor
                 THEN Len(received) ELSE filters[a].factor)
          /\ Len(filters[a].history) <= filters[a].factor
          /\ Len(filters[a].history) >= 1

C2_Witness ==
    /\ Len(received) = 5
    /\ Len(filters[<<1>>].history) = 1
    /\ Len(filters[<<3>>].history) = 3
    /\ Len(filters[<<>>].history) = 2

\* C3: a filter built with the capacity omitted or 0 holds the same history
\* and returns the same values as a filter built with capacity 2.
C3_DefaultCapacityIsTwo ==
    \A a \in {<<>>, <<0>>} :
       /\ filters[a].history = filters[<<2>>].history
       /\ out[a] = out[<<2>>]

C3_Witness ==
    /\ Len(received) = 3
    /\ received[1] # received[3]
    /\ filters[<<0>>].history = SubSeq(received, 2, 3)
    /\ filters[<<>>].history = SubSeq(received, 2, 3)
    /\ out[<<0>>][3] = Quot(received[2] + received[3], 2)

\* ------------------------------------------------------------ clip, cycle
clip_ArgsSwapped(value, min, max) == Max(Min(value, min), max)

clip_MaxOfMin(value, min, max) == Max(Min(value, max), min)

clip(value, min, max) == Min(Max(value, min), max)

cycle_WrapAbove(input, min, max) ==
    IF input + 1 > max THEN min ELSE input + 1

cycle_WrapToMax(input, min, max) ==
    IF input + 1 >= max THEN max ELSE input + 1

cycle(input, min, max) ==
    IF input + 1 >= max THEN min ELSE input + 1

InitClamp ==
    /\ args \in [value : Nums, min : Nums, max : Nums]
    /\ pc = "ready" /\ ret = Idle
    /\ filters = Idle /\ out = Idle /\ received = Idle /\ ctr = Idle

Clip ==
    /\ pc = "ready"
    /\ pc' = "clip"
    /\ ret' = clip(args.value, args.min, args.max)
    /\ UNCHANGED <<filters, out, received, ctr, args>>

Cycle ==
    /\ pc = "ready"
    /\ pc' = "cycle"
    /\ ret' = cycle(args.value, args.min, args.max)
    /\ UNCHANGED <<filters, out, received, ctr, args>>

NextClamp == Clip \/ Cycle

SpecClamp == InitClamp /\ [][NextClamp]_vars

\* C4: with min <= max, clip returns value when min <= value <= max, min
\* when value < min and max when value > max; the result lies in [min, max].
C4_ClipClamps ==
    (pc = "clip" /\ args.min <= args.max) =>
       /\ (args.min <= args.value /\ args.value <= args.max) => ret = args.value
       /\ args.value < args.min => ret = args.min
       /\ args.value > args.max => ret = args.max
       /\ args.min <= ret /\ ret <= args.max

C4_Witness ==
    /\ pc = "clip"
    /\ args.min < args.max
    /\ args.value > args.max
    /\ ret = args.max

\* C5 as stated: with min > max, clip returns min whatever the value is.
C5_ClipInvertedReturnsMin ==
    (pc = "clip" /\ args.min > args.max) => ret = args.min

\* C5 amended: with min > max, clip returns max whatever the value is.
C5_ClipInvertedReturnsMax ==
    (pc = "clip" /\ args.min > args.max) => ret = args.max

C5_Witness ==
    /\ pc = "clip"
    /\ args.min > args.max
    /\ args.value > args.max /\ args.value < args.min
    /\ ret = args.max

\* C8: cycle returns min when args + 1 >= max and args + 1 otherwise, so
\* cycle(max-2, min, max) = max-1 and cycle(max-1, min, max) = min.
C8_CycleIncrementsOrWraps ==
    pc = "cycle" =>
       /\ args.value + 1 >= args.max => ret = args.min
       /\ args.value + 1 < args.max => ret = args.value + 1
       /\ args.value = args.max - 2 => ret = args.max - 1
       /\ args.value = args.max - 1 => ret = args.min

C8_Witness ==
    /\ pc = "cycle"
    /\ args.value = args.max - 1
    /\ args.min < args.value
    /\ ret = args.min

\* ------------------------------------------------------------------ scale
\* `division` records the divisor of the division the call performed, if any
scale_NoGuard(inNum, inMin, inMax, outMin, outMax) ==
    [val |-> Add(Quot((inNum - inMin) * (outMax - outMin), inMax - inMin),
                 Num(outMin)),
     division |-> <<inMax - inMin>>]

scale(inNum, inMin, inMax, outMin, outMax) ==
    IF inMin = inMax
    THEN [val |-> Num(outMin), division |-> <<>>]
    ELSE [val |-> Add(Quot((inNum - inMin) * (outMax - outMin), inMax - inMin),
                      Num(outMin)),
          division |-> <<inMax - inMin>>]

InitScale ==
    /\ args \in [inNum : Nums, inMin : Nums, inMax : Nums,
                   outMin : Nums, outMax : Nums]
    /\ pc = "ready" /\ ret = Idle
    /\ filters = Idle /\ out = Idle /\ received = Idle /\ ctr = Idle

Scale ==
    /\ pc = "ready"
    /\ pc' = "scale"
    /\ ret' = scale(args.inNum, args.inMin, args.inMax,
                    args.outMin, args.outMax)
    /\ UNCHANGED <<filters, out, received, ctr, args>>

NextScale == Scale

SpecScale == InitScale /\ [][NextScale]_vars

\* C7: when inMin = inMax, scale returns exactly outMin and performs no
\* division by (inMax - inMin).
C7_ScaleDegenerateRange ==
    (pc = "scale" /\ args.inMin = args.inMax) =>
       /\ ret.val = <<args.outMin, 1>>
       /\ ret.division = <<>>

C7_Witness ==
    /\ pc = "scale"
    /\ args.inMin = args.inMax
    /\ args.inNum # args.inMin
    /\ args.outMin # args.outMax
    /\ ret.val = <<args.outMin, 1>>

\* ----------------------------------------------------------- ri, rf, coin
\* rnd is the value Math.random() returned
rf(bound1, bound2, rnd) ==
    LET b2 == IF Falsy(bound2) THEN bound1 ELSE bound2[1]
        b1 == IF Falsy(bound2) THEN 0 ELSE bound1
        low == Min(b1, b2)
        high == Max(b1, b2)
    IN  Add(Mul(rnd, Num(high - low)), Num(low))

ri_Ceil(bound1, bound2, rnd) ==
    LET b2 == IF Falsy(bound2) THEN bound1 ELSE bound2[1]
        b1 == IF Falsy(bound2) THEN 0 ELSE bound1
        low == Min(b1, b2)
        high == Max(b1, b2)
        x == Add(Mul(rnd, Num(high - low)), Num(low))
    IN  -Floor(<<-x[1], x[2]>>)

ri(bound1, bound2, rnd) ==
    LET b2 == IF Falsy(bound2) THEN bound1 ELSE bound2[1]
        b1 == IF Falsy(bound2) THEN 0 ELSE bound1
        low == Min(b1, b2)
        high == Max(b1, b2)
    IN  Floor(Add(Mul(rnd, Num(high - low)), Num(low)))

coin_LessOrEqual(odds, rnd) ==
    LET o == IF odds = <<>> THEN Quot(1, 2) ELSE odds[1]
        r == rf(0, <<1>>, rnd)
    IN  IF Less(r, o) \/ r = o THEN 1 ELSE 0

coin(odds, rnd) ==
    LET o == IF odds = <<>> THEN Quot(1, 2) ELSE odds[1]
    IN  IF Less(rf(0, <<1>>, rnd), o) THEN 1 ELSE 0

InitRandom ==
    /\ args \in [bound1 : Nums, bound2 : Opt(Nums), odds : OddsArgs, rnd : Draws]
    /\ pc = "ready" /\ ret = Idle
    /\ filters = Idle /\ out = Idle /\ received = Idle /\ ctr = Idle

Ri ==
    /\ pc = "ready"
    /\ pc' = "ri"
    /\ ret' = ri(args.bound1, args.bound2, args.rnd)
    /\ UNCHANGED <<filters, out, received, ctr, args>>

Rf ==
    /\ pc = "ready"
    /\ pc' = "rf"
    /\ ret' = rf(args.bound1, args.bound2, args.rnd)
    /\ UNCHANGED <<filters, out, received, ctr, args>>

Coin ==
    /\ pc = "ready"
    /\ pc' = "coin"
    /\ ret' = coin(args.odds, args.rnd)
    /\ UNCHANGED <<filters, out, received, ctr, args>>

NextRandom == Ri \/ Rf \/ Coin

SpecRandom == InitRandom /\ [][NextRandom]_vars

\* the bounds a and b of a call ri(a, b), b omitted meaning ri(0, a)
RiLow == IF args.bound2 = <<>> THEN (IF 0 < args.bound1 THEN 0 ELSE args.bound1)
         ELSE (IF args.bound1 < args.bound2[1] THEN args.bound1 ELSE args.bound2[1])
RiHigh == IF args.bound2 = <<>> THEN (IF 0 > args.bound1 THEN 0 ELSE args.bound1)
          ELSE (IF args.bound1 > args.bound2[1] THEN args.bound1 ELSE args.bound2[1])

\* C6 as stated: for all a and b and every draw, ri(a, b) returns an integer
\* r with min(a,b) <= r < max(a,b), an omitted or 0 second bound meaning
\* ri(0, a).
C6_RiWithinHalfOpenRange ==
    pc = "ri" => (ret \in Int /\ RiLow <= ret /\ ret < RiHigh)

\* C6 amended: for all integers a and b with distinct bounds and every draw,
\* ri(a, b) returns an integer r with min(a,b) <= r < max(a,b); with equal
\* bounds it returns that bound.
C6_RiWithinNonEmptyRange ==
    pc = "ri" =>
       /\ ret \in Int
       /\ RiLow # RiHigh => (RiLow <= ret /\ ret < RiHigh)
       /\ RiLow = RiHigh => ret = RiLow

C6_Witness ==
    /\ pc = "ri"
    /\ args.bound2 = <<0>>
    /\ args.bound1 = -2
    /\ args.rnd = Quot(DrawDen - 1, DrawDen)
    /\ ret = -1

\* C9: for every draw, coin(0) returns 0, coin(1) returns 1, and coin(odds)
\* returns 1 exactly when the draw is strictly below odds (0.5 when omitted)
\* and 0 otherwise.
C9_CoinComparesDrawWithOdds ==
    pc = "coin" =>
       LET o == IF args.odds = <<>> THEN <<1, 2>> ELSE args.odds[1]
       IN  /\ ret \in {0, 1}
           /\ args.odds = << <<0, 1>> >> => ret = 0
           /\ args.odds = << <<1, 1>> >> => ret = 1
           /\ ret = 1 <=> args.rnd[1] * o[2] < o[1] * args.rnd[2]

C9_Witness ==
    /\ pc = "coin"
    /\ args.odds = << <<0, 1>> >>
    /\ args.rnd = <<0, 1>>
    /\ ret = 0

\* ---------------------------------------------------------- bounded counter
\* a caller keeps a counter c in [min, max) and advances it with cycle;
\* start, prev and steps record where it began, its previous value and how
\* many times it has been advanced
InitCounter ==
    /\ ctr \in UNION {UNION {{[min |-> m, max |-> m + r, c |-> s, start |-> s,
                               prev |-> s, steps |-> 0] : s \in m..(m + r - 1)}
                             : r \in 1..MaxRange} : m \in Nums}
    /\ pc = "counter" /\ args = Idle /\ ret = Idle
    /\ filters = Idle /\ out = Idle /\ received = Idle

Advance ==
    /\ ctr.steps < MaxSteps
    /\ ctr' = [ctr EXCEPT !.c = cycle(ctr.c, ctr.min, ctr.max),
                          !.prev = ctr.c,
                          !.steps = @ + 1]
    /\ UNCHANGED <<filters, out, received, pc, args, ret>>

NextCounter == Advance

SpecCounter == InitCounter /\ [][NextCounter]_vars

\* C10: a counter started in [min, max) and advanced by cycle stays in
\* [min, max), goes up by one at each step except for the wrap from max-1 to
\* min, and is back at its starting value after exactly max - min steps.
C10_CounterCyclesThroughRange ==
    /\ ctr.min <= ctr.c /\ ctr.c < ctr.max
    /\ ctr.steps > 0 =>
          \/ ctr.c = ctr.prev + 1
          \/ (ctr.prev = ctr.max - 1 /\ ctr.c = ctr.min)
    /\ ctr.steps > 0 => (ctr.prev = ctr.max - 1 => ctr.c = ctr.min)
    /\ ctr.steps = ctr.max - ctr.min => ctr.c = ctr.start
    /\ (0 < ctr.steps /\ ctr.steps < ctr.max - ctr.min) => ctr.c # ctr.start

C10_Witness ==
    /\ ctr.max - ctr.min = 3
    /\ ctr.start = ctr.min + 1
    /\ ctr.steps = 3
    /\ ctr.prev = ctr.min
    /\ ctr.c = ctr.start
====
